---- MODULE Spec2Model ----
(***************************************************************************)
(* A model of hypothesis_fspaths.py: the strategies _filename, _path_root  *)
(* and fspaths, the existence filter check_not_exists and the _PathLike    *)
(* wrapper, together with the runtime the code reads (os.name, the Python  *)
(* version, the filesystem encoding) and the filesystem os.lstat probes.   *)
(*                                                                         *)
(* A path value is a record [t |-> "bytes" | "text", s |-> <<units>>]: a   *)
(* bytes value holds byte values, a text value holds codepoints.  A        *)
(* drawn object is [kind |-> "bytes" | "text" | "pathlike", v |-> value], *)
(* the value itself or a _PathLike wrapper around it.  A strategy is the   *)
(* set of the values a draw from it can return.                            *)
(***************************************************************************)
EXTENDS Naturals, Sequences, FiniteSets

VARIABLES
    os_name,        \* os.name: "posix" or "nt"
    pyver,          \* the running Python: "py2", "py35" or "py36"
    lim,            \* the sample the entropy source draws from: codepoints and sizes
    files,          \* the entries of the current directory, as encoded names
    allow_pathlike, \* argument of fspaths: "None", "True" or "False"
    allow_existing, \* argument of fspaths: BOOLEAN
    pc,             \* position in the body of the strategy being drawn
    strategy,       \* the strategy being drawn: "fspaths", "_filename", "_path_root"
    result_type,    \* the representation of this draw: "bytes", "text" or "None"
    built,          \* the values main_strategy, as this draw built it, produces
    candidate,      \* the value main_strategy assembled in this draw
    probe,          \* how os.lstat(candidate) ended: "none" when it was not called
    result,         \* the value the draw returned
    draws,          \* draw() calls made by the body of fspaths in this draw
    probes,         \* os.lstat calls made in this draw
    created         \* returned values at which a file was created and still exists

vars == <<os_name, pyver, lim, files, allow_pathlike, allow_existing, pc, strategy,
          result_type, built, candidate, probe, result, draws, probes, created>>

(***************************************************************************)
(* Bounds of the model.                                                    *)
(***************************************************************************)
\* longest segment text() draws, in units
MaxSegLen == 1
\* longest list lists(path_component) draws
MaxComponents == 2
\* the same two sizes where only roots and segments are drawn
PartSegLen == 2
\* the same two sizes for the search that looks for long values
LongSegLen == 10
LongComponents == 1
\* longest path os.lstat takes before it reports an overflow
PathMax == 6
\* most files the scenario keeps in the current directory
MaxFiles == 1

\* the length the long-value search of the tests asks to exceed
LongLen == 20

NoValue == [t |-> "none", s |-> <<>>]
TypeErrorValue == [t |-> "TypeError", s |-> <<>>]

bytes(s) == [t |-> "bytes", s |-> s]
text_type(s) == [t |-> "text", s |-> s]

SeqsUpTo(S, n) == UNION {[1..k -> S] : k \in 0..n}

\* sys.version_info[0] == 3
PY3 == pyver # "py2"

\* the type of a native str literal such as os.sep: bytes on Python 2, text on 3
str(s) == IF PY3 THEN text_type(s) ELSE bytes(s)

\* os.sep, os.altsep, os.curdir, os.pardir, os.extsep
os_sep == IF os_name = "nt" THEN str(<<92>>) ELSE str(<<47>>)
os_altsep == IF os_name = "nt" THEN str(<<47>>) ELSE NoValue
os_curdir == str(<<46>>)
os_pardir == str(<<46, 46>>)
os_extsep == str(<<46>>)

\* sys.getfilesystemencoding()
getfilesystemencoding ==
    IF os_name = "nt" /\ pyver # "py36" THEN "mbcs" ELSE "utf-8"

(***************************************************************************)
(* Codecs, as far as the sampled bytes and codepoints need them.  UTF-8    *)
(* sequences of one to three bytes are decoded and encoded; the sample     *)
(* holds no lead byte of a four-byte sequence and no codepoint above       *)
(* 16^4 - 1.                                                               *)
(***************************************************************************)
IsCont(b) == b \in 128..191

\* the length of the valid UTF-8 sequence that starts at b[i], 0 when there is none
Utf8SeqLen(b, i) ==
    LET c == b[i]
        n == Len(b)
    IN  IF c < 128 THEN 1
        ELSE IF c \in 194..223 /\ i + 1 <= n /\ IsCont(b[i + 1]) THEN 2
        ELSE IF c \in 224..239 /\ i + 2 <= n /\ IsCont(b[i + 1]) /\ IsCont(b[i + 2])
                /\ (c = 224 => b[i + 1] >= 160) /\ (c = 237 => b[i + 1] <= 159)
             THEN 3
        ELSE 0

Utf8Codepoint(b, i, k) ==
    IF k = 1 THEN b[i]
    ELSE IF k = 2 THEN (b[i] - 192) * 64 + (b[i + 1] - 128)
    ELSE (b[i] - 224) * 4096 + (b[i + 1] - 128) * 64 + (b[i + 2] - 128)

RECURSIVE Utf8DecodeFrom(_, _, _)
\* b[i..].decode('utf-8', errors): an undecodable byte becomes the lone surrogate
\* DC00 + byte under 'surrogateescape' and is dropped under 'ignore'
Utf8DecodeFrom(b, i, errors) ==
    IF i > Len(b) THEN <<>>
    ELSE LET k == Utf8SeqLen(b, i)
         IN  IF k > 0
             THEN <<Utf8Codepoint(b, i, k)>> \o Utf8DecodeFrom(b, i + k, errors)
             ELSE (IF errors = "surrogateescape" THEN <<56320 + b[i]>> ELSE <<>>)
                  \o Utf8DecodeFrom(b, i + 1, errors)

IsSurrogate(c) == c \in 55296..57343

\* the bytes of one codepoint under utf-8, <<>> standing for "cannot be encoded"
Utf8EncodeChar(c, errors) ==
    IF c < 128 THEN <<c>>
    ELSE IF errors = "surrogateescape" /\ c \in 56448..56575 THEN <<c - 56320>>
    ELSE IF IsSurrogate(c) /\ errors = "replace" THEN <<63>>
    ELSE IF IsSurrogate(c) /\ errors # "surrogatepass" THEN <<>>
    ELSE IF c < 2048 THEN <<192 + (c \div 64), 128 + (c % 64)>>
    ELSE <<224 + (c \div 4096), 128 + ((c \div 64) % 64), 128 + (c % 64)>>

\* the bytes of one codepoint under mbcs (a single-byte ANSI code page that agrees
\* with latin-1 from A0 on); it knows no error handler but strict, ignore, replace
MbcsEncodeChar(c, errors) ==
    IF c < 128 \/ c \in 160..255 THEN <<c>>
    ELSE IF errors = "replace" THEN <<63>>
    ELSE <<>>

EncodeChar(enc, c, errors) ==
    IF enc = "mbcs" THEN MbcsEncodeChar(c, errors) ELSE Utf8EncodeChar(c, errors)

\* whether s.encode(enc, errors) raises UnicodeEncodeError
EncodeFails(enc, s, errors) ==
    \E i \in 1..Len(s) : EncodeChar(enc, s[i], errors) = <<>>

RECURSIVE EncodeFrom(_, _, _, _)
EncodeFrom(enc, s, i, errors) ==
    IF i > Len(s) THEN <<>>
    ELSE EncodeChar(enc, s[i], errors) \o EncodeFrom(enc, s, i + 1, errors)

\* s.encode(enc, errors), for a text that can be encoded
Encode(enc, s, errors) == EncodeFrom(enc, s, 1, errors)

\* t.encode('latin-1'): one byte per codepoint
Latin1Encode(s) == [i \in 1..Len(s) |-> s[i] % 256]

\* s.encode('ascii') and s.decode('ascii'): the unit stays what it is
AsciiCode(s) == [i \in 1..Len(s) |-> s[i] % 128]

(***************************************************************************)
(* The strategies of hypothesis the code builds on.                        *)
(***************************************************************************)
\* characters(min_codepoint, max_codepoint), within the sample
characters(min_codepoint, max_codepoint) ==
    {c \in lim.cps : min_codepoint <= c /\ c <= max_codepoint}

\* text(alphabet): the strings over the alphabet, up to the sampled length
text(alphabet) == SeqsUpTo(alphabet, lim.seg)

\* lists(elements): the lists of drawn elements, up to the sampled length
lists(elements) == SeqsUpTo(elements, lim.list)

\* values without its i-th item
Without(values, i) == SubSeq(values, 1, i - 1) \o SubSeq(values, i + 1, Len(values))

RECURSIVE permutations(_)
\* permutations(values): every reordering of the sequence, built from each item it
\* can start with
permutations(values) ==
    IF values = <<>> THEN {<<>>}
    ELSE UNION {{<<values[i]>> \o rest : rest \in permutations(Without(values, i))} :
                    i \in {j \in 1..Len(values) :
                               \A k \in 1..(j - 1) : values[k] # values[j]}}

RECURSIVE Concat(_, _, _)
Concat(sep, l, i) ==
    IF i > Len(l) THEN <<>>
    ELSE (IF i > 1 THEN sep ELSE <<>>) \o l[i].s \o Concat(sep, l, i + 1)

\* s.join(l): a TypeError when an item is not of the type of s
join(s, l) ==
    IF \E i \in 1..Len(l) : l[i].t # s.t THEN TypeErrorValue
    ELSE [t |-> s.t, s |-> Concat(s.s, l, 1)]

\* a + b on two path values
concat(a, b) ==
    IF a.t # b.t THEN TypeErrorValue ELSE [t |-> a.t, s |-> a.s \o b.s]

(***************************************************************************)
(* _filename                                                               *)
(***************************************************************************)
MaxUnicode == 1114111

\* a faulty variant of ascii_char: the alphabet starts at NUL
ascii_char_from_nul == characters(0, 127)

ascii_char == characters(1, 127)
surrogate == characters(55296, 57343)
uni_char == characters(1, MaxUnicode)
latin_char == characters(1, 255)

\* text_to_bytes of the Windows branch
text_to_bytes(path) ==
    LET fs_enc == getfilesystemencoding
    IN  IF ~EncodeFails(fs_enc, path, "surrogatepass")
        THEN Encode(fs_enc, path, "surrogatepass")
        ELSE Encode(fs_enc, path, "replace")

nt_text_strategy == text(uni_char \cup surrogate \cup ascii_char)
nt_bytes_strategy == {text_to_bytes(t) : t \in nt_text_strategy}

unix_bytes_strategy == {Latin1Encode(t) : t \in text(latin_char \cup ascii_char)}
unix_path_text ==
    {Utf8DecodeFrom(b, 1, IF PY3 THEN "surrogateescape" ELSE "ignore") :
        b \in unix_bytes_strategy}
unix_text_strategy == UNION {permutations(t) : t \in unix_path_text}

bytes_strategy ==
    {bytes(b) : b \in IF os_name = "nt" THEN nt_bytes_strategy ELSE unix_bytes_strategy}
text_strategy ==
    {text_type(t) : t \in IF os_name = "nt" THEN nt_text_strategy ELSE unix_text_strategy}

\* the values a draw of _filename(result_type) can return
_filename(rt) ==
    IF rt = "None" THEN bytes_strategy \cup text_strategy
    ELSE IF rt = "bytes" THEN bytes_strategy
    ELSE text_strategy

(***************************************************************************)
(* _str_to_path and _path_root                                             *)
(***************************************************************************)
\* a faulty variant of _str_to_path: the literal is returned as it is
_str_to_path_unconverted(s, rt) == s

\* _str_to_path(s, result_type), s a native str
_str_to_path(s, rt) ==
    IF s.t = "bytes" /\ rt = "text" THEN text_type(AsciiCode(s.s))
    ELSE IF s.t = "text" /\ rt = "bytes" THEN bytes(AsciiCode(s.s))
    ELSE s

\* the local tp(s) of _path_root and of fspaths
tp(s, rt) == _str_to_path(str(s), rt)

\* sampled_from([os.sep, os.altsep or os.sep]).map(tp)
sep(rt) ==
    {_str_to_path(x, rt) : x \in {os_sep, IF os_altsep = NoValue THEN os_sep ELSE os_altsep}}

\* name.map(lambda n: n[0:1])
char(rt) == {[t |-> n.t, s |-> SubSeq(n.s, 1, IF Len(n.s) = 0 THEN 0 ELSE 1)] : n \in _filename(rt)}

relative(rt) == sep(rt)

\* [drive_letter]:\
drive(rt) ==
    {join(tp(<<>>, rt), <<c, tp(<<58>>, rt), s>>) : c \in char(rt), s \in sep(rt)}

\* \\?\[drive_spec]:\
extended(rt) ==
    {join(tp(<<>>, rt), <<s1, s2, tp(<<63>>, rt), s3, d>>) :
        s1 \in sep(rt), s2 \in sep(rt), s3 \in sep(rt), d \in drive(rt)}

\* \\[server]\[sharename]\
network_share(rt) ==
    {join(tp(<<>>, rt), <<s[1], s[2], n1, s[3], n2, s[4]>>) :
        s \in [1..4 -> sep(rt)], n1 \in _filename(rt), n2 \in _filename(rt)}

\* \\?\[server]\[sharename]\
network_extended(rt) ==
    {join(tp(<<>>, rt), <<s[1], s[2], tp(<<63>>, rt), s[3], n1, s[4], n2, s[5]>>) :
        s \in [1..5 -> sep(rt)], n1 \in _filename(rt), n2 \in _filename(rt)}

\* \\?\UNC\[server]\[sharename]\
network_unc(rt) ==
    {join(tp(<<>>, rt),
          <<s[1], s[2], tp(<<63>>, rt), s[3], tp(<<85, 78, 67>>, rt), s[4], n1, s[5], n2, s[6]>>) :
        s \in [1..6 -> sep(rt)], n1 \in _filename(rt), n2 \in _filename(rt)}

\* \\.\[physical_device]\
network_device(rt) ==
    {join(tp(<<>>, rt), <<s[1], s[2], tp(<<46>>, rt), s[3], n, s[4]>>) :
        s \in [1..4 -> sep(rt)], n \in _filename(rt)}

network(rt) ==
    network_share(rt) \cup network_extended(rt) \cup network_unc(rt) \cup network_device(rt)

\* the values a draw of _path_root(result_type) can return
_path_root(rt) ==
    IF os_name # "nt" THEN {tp(os_sep.s, rt)}
    ELSE relative(rt) \cup drive(rt) \cup extended(rt) \cup network(rt)

(***************************************************************************)
(* The filesystem os.lstat probes.  The current directory is a directory   *)
(* CwdDepth levels below the root; `files` are the regular files in it.    *)
(* Of the other directories only those between the root and the current    *)
(* directory are known, and none of their names can be drawn.              *)
(***************************************************************************)
CwdDepth == 2

\* what the system call receives: bytes as they are, text encoded as os.fsencode does
fsencode(path) ==
    IF path.t = "bytes" THEN path.s
    ELSE IF os_name = "nt" THEN text_to_bytes(path.s)
    ELSE Encode(getfilesystemencoding, path.s, IF PY3 THEN "surrogateescape" ELSE "strict")

\* whether encoding the text for the system call raises UnicodeEncodeError
fsencode_fails(path) ==
    /\ path.t = "text"
    /\ os_name # "nt"
    /\ EncodeFails(getfilesystemencoding, path.s, IF PY3 THEN "surrogateescape" ELSE "strict")

IsSep(b) == b = 47 \/ (os_name = "nt" /\ b = 92)

RECURSIVE Walk(_, _, _, _)
\* resolves b[i..] from position `at`: a directory at depth at.d, a file, or nothing;
\* `name` is the component read so far
Walk(b, i, at, name) ==
    LET step ==
            IF at.k # "dir" THEN [k |-> "missing", d |-> 0]
            ELSE IF name = <<>> \/ name = <<46>> THEN at
            ELSE IF name = <<46, 46>> THEN [k |-> "dir", d |-> IF at.d = 0 THEN 0 ELSE at.d - 1]
            ELSE IF at.d = CwdDepth /\ name \in files THEN [k |-> "file", d |-> 0]
            ELSE [k |-> "missing", d |-> 0]
    IN  IF i > Len(b) THEN (IF name = <<>> /\ at.k = "dir" THEN at ELSE step)
        ELSE IF IsSep(b[i]) THEN Walk(b, i + 1, step, <<>>)
        ELSE Walk(b, i + 1, at, Append(name, b[i]))

\* the ways os.lstat(path) can end: "ok", or the exception raised (an embedded
\* NUL is a ValueError on Python 3 and a TypeError on Python 2)
lstat(path) ==
    IF fsencode_fails(path) THEN {"ValueError"}
    ELSE LET b == fsencode(path)
         IN  IF \E i \in 1..Len(b) : b[i] = 0
             THEN (IF PY3 THEN {"ValueError"} ELSE {"TypeError"})
             ELSE IF Len(b) = 0 THEN {"OSError"}
             ELSE IF Len(b) > PathMax
                  THEN (IF os_name = "nt" THEN {"ValueError", "OSError"} ELSE {"OSError"})
             ELSE IF os_name = "nt"
                     /\ \/ (Len(b) >= 2 /\ IsSep(b[1]) /\ IsSep(b[2]))
                        \/ \E i \in 1..Len(b) : b[i] \in {58, 63}
                  THEN {"OSError"}
             ELSE LET start == IF IsSep(b[1]) THEN 0 ELSE CwdDepth
                      end == Walk(b, 1, [k |-> "dir", d |-> start], <<>>)
                  IN  IF end.k = "missing" THEN {"OSError"} ELSE {"ok"}

(***************************************************************************)
(* fspaths                                                                 *)
(***************************************************************************)
\* hasattr(os, 'PathLike') and hasattr(os, 'fspath'): both came with Python 3.6
has_pathlike == pyver = "py36"
has_fspath == pyver = "py36"

\* allow_pathlike after `if allow_pathlike is None: allow_pathlike = has_pathlike`
resolved_allow_pathlike(ap) ==
    IF ap = "None" THEN has_pathlike ELSE ap = "True"

\* a faulty variant of must_raise: the error is raised whenever os.PathLike is missing
must_raise_unsupported(ap) == ~has_pathlike

\* the condition of `raise InvalidArgument`
must_raise(ap) == resolved_allow_pathlike(ap) /\ ~has_pathlike

special_component(rt) == {tp(os_curdir.s, rt), tp(os_pardir.s, rt)}
normal_component(rt) == _filename(rt)
path_component(rt) == normal_component(rt) \cup special_component(rt)
extension(rt) == {concat(tp(os_extsep.s, rt), f) : f \in normal_component(rt)}
root(rt) == _path_root(rt)

\* result_type()
empty(rt) == [t |-> rt, s |-> <<>>]

\* a faulty variant of optional: the part is always present
optional_never_empty(st, rt) == st

\* optional(st)
optional(st, rt) == st \cup {empty(rt)}

path_part(rt) == {join(s, l) : s \in sep(rt), l \in lists(path_component(rt))}

\* a faulty variant of main_strategy: the three parts are joined by a separator
main_strategy_sep_joined(rt) ==
    {join(s, <<r, p, e>>) :
        s \in sep(rt),
        r \in optional(root(rt), rt), p \in path_part(rt), e \in optional(extension(rt), rt)}

\* builds(lambda *x: tp().join(x), optional(root), path_part, optional(extension))
main_strategy(rt) ==
    {join(tp(<<>>, rt), <<r, p, e>>) :
        r \in optional(root(rt), rt), p \in path_part(rt), e \in optional(extension(rt), rt)}

\* faulty variants of check_not_exists: every candidate passes; every failed probe passes
check_not_exists_always(outcome) == TRUE
check_not_exists_permissive(outcome) == outcome # "ok"

\* check_not_exists(path), given how os.lstat(path) ended
check_not_exists(outcome) ==
    IF outcome = "OSError" THEN TRUE
    ELSE IF outcome = "ValueError" THEN FALSE
    ELSE FALSE

\* a faulty variant of caught: only `except OSError` is there
caught_oserror_only(outcome) == outcome = "OSError"

\* the failures of os.lstat the except clauses of check_not_exists catch; any
\* other exception leaves check_not_exists and the draw
caught(outcome) == outcome \in {"OSError", "ValueError"}

\* a faulty variant of filtered: the filter is never applied
filtered_never(ae) == FALSE

\* whether main_strategy is filtered: `if not allow_existing`
filtered(ae) == ~ae

\* a faulty variant of with_pathlike: the wrapper branch is added whenever os.fspath exists
with_pathlike_always(ap) == has_fspath

\* whether one_of(main_strategy, pathlike_strategy) replaces main_strategy
with_pathlike(ap) == resolved_allow_pathlike(ap) /\ has_fspath

\* _PathLike(value) and its __fspath__
_PathLike(value) == [kind |-> "pathlike", v |-> value]
plain(value) == [kind |-> value.t, v |-> value]
fspath(p) == p.v

NoResult == [kind |-> "none", v |-> NoValue]

(***************************************************************************)
(* The samples the specifications draw from.                               *)
(***************************************************************************)
\* "/", "a" and the byte E9, which is no UTF-8 sequence, on POSIX; "a" on Windows;
\* and NUL, which no alphabet holds
MainLim(os) ==
    [cps |-> IF os = "nt" THEN {0, 97} ELSE {0, 47, 97, 233},
     seg |-> MaxSegLen,
     list |-> IF os = "nt" THEN MaxComponents - 1 ELSE MaxComponents,
     files |-> IF os = "nt" THEN 0 ELSE MaxFiles]

\* NUL, a separator, "a", on POSIX two bytes that form one UTF-8 sequence (C3 A9)
\* or, alone, none, and on Windows a lone surrogate
PartLim(os) ==
    [cps |-> IF os = "nt" THEN {0, 92, 97, 55296} ELSE {0, 47, 97, 169, 195},
     seg |-> IF os = "nt" THEN PartSegLen - 1 ELSE PartSegLen,
     list |-> 0,
     files |-> 0]

\* "a" alone, in long segments
LongLim(os) ==
    [cps |-> IF os = "nt" THEN {} ELSE {97},
     seg |-> IF os = "nt" THEN 0 ELSE LongSegLen,
     list |-> LongComponents,
     files |-> 0]

(***************************************************************************)
(* The state machine: one draw of a strategy after the other, and the      *)
(* files the scenario of test_avoids_existing creates and removes.         *)
(***************************************************************************)
Idle ==
    /\ pc' = "idle"
    /\ strategy' = "none"
    /\ result_type' = "None"
    /\ built' = {}
    /\ candidate' = NoValue
    /\ probe' = "none"
    /\ result' = NoResult
    /\ draws' = 0
    /\ probes' = 0

InitEnv(os, py, l) ==
    /\ os_name = os
    /\ pyver = py
    /\ lim = l
    /\ files = {}
    /\ created = {}
    /\ allow_pathlike = "None"
    /\ allow_existing = FALSE
    /\ pc = "idle"
    /\ strategy = "none"
    /\ result_type = "None"
    /\ built = {}
    /\ candidate = NoValue
    /\ probe = "none"
    /\ result = NoResult
    /\ draws = 0
    /\ probes = 0

Init ==
    \E os \in {"posix", "nt"}, py \in {"py35", "py36"} : InitEnv(os, py, MainLim(os))

\* fspaths(allow_pathlike=ap, allow_existing=ae) is drawn: its body starts
Call(ap, ae) ==
    /\ pc = "idle"
    /\ pc' = "check"
    /\ strategy' = "fspaths"
    /\ allow_pathlike' = ap
    /\ allow_existing' = ae
    /\ UNCHANGED <<os_name, pyver, lim, files, created, result_type, built, candidate,
                   probe, result, draws, probes>>

\* lines 185-192: the usage error, or on to the first draw
CheckPathlike ==
    /\ pc = "check"
    /\ pc' = IF must_raise(allow_pathlike) THEN "raised" ELSE "draw_type"
    /\ UNCHANGED <<os_name, pyver, lim, files, created, strategy, allow_pathlike,
                   allow_existing, result_type, built, candidate, probe, result, draws,
                   probes>>

\* lines 194-231: result_type = draw(sampled_from([bytes, text_type])), and
\* main_strategy is built for it
DrawResultType ==
    /\ pc = "draw_type"
    /\ \E rt \in {"bytes", "text"} :
        /\ result_type' = rt
        /\ built' = main_strategy(rt)
    /\ draws' = draws + 1
    /\ pc' = "draw_main"
    /\ UNCHANGED <<os_name, pyver, lim, files, created, strategy, allow_pathlike,
                   allow_existing, candidate, probe, result, probes>>

\* line 233, for one outcome of draw(main_strategy): candidate c is assembled
\* and, unless allow_existing, probed; it is returned as it is or, in the pathlike
\* branch, wrapped; a candidate the filter rejects is discarded by the engine and
\* nothing is returned
DrawMainOf(c, wrap) ==
    /\ pc = "draw_main"
    /\ candidate' = c
    /\ built' = {}
    /\ draws' = draws + 1
    /\ IF c.t = "TypeError"
       THEN /\ pc' = "type_error"
            /\ probe' = "none"
            /\ probes' = probes
            /\ result' = NoResult
       ELSE \E o \in IF filtered(allow_existing) THEN lstat(c) ELSE {"none"} :
            /\ probe' = o
            /\ probes' = IF filtered(allow_existing) THEN probes + 1 ELSE probes
            /\ IF filtered(allow_existing) /\ o # "ok" /\ ~caught(o)
               THEN /\ pc' = "propagated"
                    /\ result' = NoResult
               ELSE IF filtered(allow_existing) => check_not_exists(o)
                    THEN /\ pc' = "returned"
                         /\ result' = IF wrap THEN _PathLike(c) ELSE plain(c)
                    ELSE /\ pc' = "rejected"
                         /\ result' = NoResult
    /\ UNCHANGED <<os_name, pyver, lim, files, created, strategy, allow_pathlike,
                   allow_existing, result_type>>

\* line 233: draw(main_strategy)
DrawMain ==
    /\ pc = "draw_main"
    /\ \E c \in built,
          wrap \in IF with_pathlike(allow_pathlike) THEN {FALSE, TRUE} ELSE {FALSE} :
           DrawMainOf(c, wrap)

\* the draw is over: the value was used, or the error or the rejection handled
Finish ==
    /\ pc \in {"returned", "rejected", "raised", "type_error", "propagated"}
    /\ Idle
    /\ UNCHANGED <<os_name, pyver, lim, files, created, allow_pathlike, allow_existing>>

\* basename(p) == p, and open(p, "w") succeeds: a name that is free in the current
\* directory
is_filename_and_can_create(p) ==
    LET b == fsencode(p)
    IN  /\ ~fsencode_fails(p)
        /\ \A i \in 1..Len(b) : ~IsSep(b[i]) /\ b[i] # 0
        /\ b \notin {<<>>, <<46>>, <<46, 46>>}
        /\ Len(b) <= PathMax
        /\ "OSError" \in lstat(p)

\* test_avoids_existing: `with open(f1, 'w')` on a value found with
\* allow_existing=False
CreateFile ==
    /\ pc = "returned"
    /\ strategy = "fspaths"
    /\ ~allow_existing
    /\ Cardinality(files) < lim.files
    /\ is_filename_and_can_create(fspath(result))
    /\ files' = files \cup {fsencode(fspath(result))}
    /\ created' = created \cup {fspath(result)}
    /\ Idle
    /\ UNCHANGED <<os_name, pyver, lim, allow_pathlike, allow_existing>>

\* os.unlink(f1)
Unlink ==
    /\ pc = "idle"
    /\ \E b \in files :
        /\ files' = files \ {b}
        /\ created' = {q \in created : fsencode(q) # b}
    /\ UNCHANGED <<os_name, pyver, lim, allow_pathlike, allow_existing, pc, strategy,
                   result_type, built, candidate, probe, result, draws, probes>>

Next ==
    \/ \E ap \in {"None", "True", "False"}, ae \in BOOLEAN : Call(ap, ae)
    \/ CheckPathlike
    \/ DrawResultType
    \/ DrawMain
    \/ Finish
    \/ CreateFile
    \/ Unlink

Spec == Init /\ [][Next]_vars

(***************************************************************************)
(* _filename and _path_root drawn on their own.                            *)
(***************************************************************************)
InitParts ==
    \E os \in {"posix", "nt"}, py \in {"py2", "py35", "py36"} : InitEnv(os, py, PartLim(os))

DrawFilename(rt) ==
    /\ pc = "idle"
    /\ strategy' = "_filename"
    /\ result_type' = rt
    /\ \E v \in _filename(rt) : result' = plain(v)
    /\ pc' = "returned"
    /\ UNCHANGED <<os_name, pyver, lim, files, created, allow_pathlike, allow_existing,
                   built, candidate, probe, draws, probes>>

DrawPathRoot(rt) ==
    /\ pc = "idle"
    /\ strategy' = "_path_root"
    /\ result_type' = rt
    /\ \E v \in _path_root(rt) : result' = plain(v)
    /\ pc' = "returned"
    /\ UNCHANGED <<os_name, pyver, lim, files, created, allow_pathlike, allow_existing,
                   built, candidate, probe, draws, probes>>

NextParts ==
    \/ \E rt \in {"None", "bytes", "text"} : DrawFilename(rt)
    \/ \E rt \in {"bytes", "text"} : DrawPathRoot(rt)
    \/ Finish

SpecParts == InitParts /\ [][NextParts]_vars

(***************************************************************************)
(* Properties of fspaths, checked under Spec.                              *)
(***************************************************************************)
Returned == strategy = "fspaths" /\ pc = "returned"

\* C1: a value returned with allow_existing=False is one at which os.lstat, in the
\* filesystem of that moment, finds no entry: the probe of a returned value never
\* succeeds
NoExistingReturned ==
    (Returned /\ ~allow_existing) => "ok" \notin lstat(fspath(result))

\* C1 witness: a wrapper is returned by the filtered strategy while a file exists
NoExistingReturnedWitness ==
    /\ Returned
    /\ ~allow_existing
    /\ result.kind = "pathlike"
    /\ files # {}
    /\ probe = "OSError"

\* C2: InvalidArgument is raised only for allow_pathlike=True on a runtime without
\* os.PathLike, always there, and before any draw and any probe
UsageErrorFirst ==
    /\ pc = "raised" =>
        /\ allow_pathlike = "True"
        /\ ~has_pathlike
        /\ draws = 0
        /\ probes = 0
        /\ result_type = "None"
        /\ candidate = NoValue
    /\ (strategy = "fspaths" /\ allow_pathlike = "True" /\ ~has_pathlike) =>
        pc \in {"check", "raised"}
    /\ allow_pathlike \in {"None", "False"} => pc # "raised"

\* C2 witness: the usage error has been raised
UsageErrorFirstWitness == strategy = "fspaths" /\ pc = "raised"

\* C3: with allow_pathlike=False a returned value is bytes or text, never a wrapper
NoWrapperWhenDisabled ==
    (Returned /\ allow_pathlike = "False") => result.kind \in {"bytes", "text"}

\* C3 witness: a value is returned with allow_pathlike=False on a runtime that has
\* os.PathLike
NoWrapperWhenDisabledWitness ==
    Returned /\ allow_pathlike = "False" /\ has_pathlike /\ ~allow_existing

Probed == strategy = "fspaths" /\ pc \in {"returned", "rejected"} /\ probe # "none"

\* C4 as claimed: only a successful stat rejects the candidate; every failed probe,
\* path-length overflow included, accepts it
OnlySuccessRejects == Probed => (pc = "rejected" <=> probe = "ok")

\* C4 as amended: a probe that fails with OSError accepts the candidate; a
\* successful stat and a probe that fails with ValueError both reject it
OSErrorAccepts == Probed => (pc = "returned" <=> probe = "OSError")

\* C4 witness: a candidate too long for the system, whose probe failed with OSError,
\* is returned
OSErrorAcceptsWitness ==
    Probed /\ pc = "returned" /\ probe = "OSError" /\ Len(candidate.s) > PathMax

RECURSIVE Joined(_, _)
\* the items of l, in their order, with s between two neighbours
Joined(s, l) ==
    IF Len(l) = 0 THEN <<>>
    ELSE IF Len(l) = 1 THEN l[1]
    ELSE l[1] \o s \o Joined(s, Tail(l))

\* the units of the values of a strategy
Units(st) == {v.s : v \in st}

\* root, then body, then extension, each possibly empty: the body is components,
\* segments or the tokens "." and "..", around one separator token; the extension
\* is the token "." and a segment
Assembled(rt) ==
    LET segments == Units(_filename(rt))
        components == segments \cup {os_curdir.s, os_pardir.s}
        roots == Units(root(rt)) \cup {<<>>}
        seps == {os_sep.s} \cup (IF os_altsep = NoValue THEN {} ELSE {os_altsep.s})
        bodies == {Joined(s, l) :
                     s \in seps, l \in UNION {[1..n -> components] : n \in 0..lim.list}}
        extensions == {os_extsep.s \o f : f \in segments} \cup {<<>>}
    IN  {r \o b \o e : r \in roots, b \in bodies, e \in extensions}

\* C12: every candidate main_strategy builds is, in the representation drawn, an
\* optional root, then a body of zero or more components around one separator
\* token, then an optional extension, and nothing else
RootBodyExtension ==
    (strategy = "fspaths" /\ pc = "draw_main") =>
        /\ built # {}
        /\ \A c \in built : c.t = result_type
        /\ Units(built) \subseteq Assembled(result_type)

\* C12 witness: main_strategy is built and holds a candidate with a root, a body
\* of two components and an extension
RootBodyExtensionWitness ==
    /\ strategy = "fspaths"
    /\ pc = "draw_main"
    /\ \E c \in built :
        /\ Len(c.s) = 6
        /\ c.s[1] = 47 /\ c.s[3] = 47 /\ c.s[5] = 46
        /\ c.s[2] = 97 /\ c.s[4] = 97 /\ c.s[6] = 97

\* C6: while a file created at an earlier returned value exists, a value returned
\* with allow_existing=False is not that value
AvoidsCreated ==
    (Returned /\ ~allow_existing) => \A q \in created : fspath(result) # q

\* C6 witness: a value is returned while a created file exists, after a candidate
\* of the same draw sequence was probed
AvoidsCreatedWitness ==
    /\ Returned
    /\ ~allow_existing
    /\ created # {}
    /\ \E q \in created : q.t = fspath(result).t /\ Len(q.s) = Len(fspath(result).s)

\* C7: every sub-part built in a draw, and the assembled value, is of the
\* representation drawn first; bytes and text are never joined
SingleRepresentation ==
    /\ pc # "type_error"
    /\ (strategy = "fspaths" /\ pc \in {"returned", "rejected"}) =>
        candidate.t = result_type
    /\ Returned => fspath(result).t = result_type
    /\ (strategy = "fspaths" /\ pc = "draw_main") =>
        \A v \in root(result_type) \cup sep(result_type)
                 \cup path_component(result_type) \cup extension(result_type)
                 \cup path_part(result_type)
                 \cup {tp(os_extsep.s, result_type), tp(<<>>, result_type),
                       empty(result_type)} :
            v.t = result_type

\* C7 witness: a bytes value with a root and an extension is returned in a wrapper,
\* where the literals are text
SingleRepresentationWitness ==
    /\ Returned
    /\ result.kind = "pathlike"
    /\ fspath(result).t = "bytes"
    /\ Len(fspath(result).s) >= 4
    /\ str(<<>>).t = "text"

(***************************************************************************)
(* Properties of _filename and _path_root, checked under SpecParts.        *)
(***************************************************************************)
Segment == strategy = "_filename" /\ pc = "returned"

\* C8 as claimed: a segment holds no path separator and no NUL
SegmentNoSepNoNul ==
    Segment => \A i \in 1..Len(result.v.s) : ~IsSep(result.v.s[i]) /\ result.v.s[i] # 0

\* C8 as amended: a segment holds no NUL byte and no NUL codepoint (it may hold a
\* path separator)
SegmentNoNul ==
    Segment => \A i \in 1..Len(result.v.s) : result.v.s[i] # 0

\* C8 witness: a text segment of the longest sampled length that holds a separator
SegmentNoNulWitness ==
    /\ Segment
    /\ result.v.t = "text"
    /\ Len(result.v.s) = lim.seg
    /\ \E i \in 1..Len(result.v.s) : IsSep(result.v.s[i])

StartsUnc(s) == Len(s) >= 2 /\ IsSep(s[1]) /\ IsSep(s[2])
StartsWith(s, lit) == Len(s) >= Len(lit) /\ SubSeq(s, 1, Len(lit)) = lit
\* s[from..] is <name> <sep> <name> <sep>
TwoNames(s, from) ==
    /\ Len(s) >= from + 1
    /\ IsSep(s[Len(s)])
    /\ \E i \in from..(Len(s) - 1) : IsSep(s[i])
\* s[from..] is <name> <sep>
OneName(s, from) == Len(s) >= from /\ IsSep(s[Len(s)])
\* one drive letter, ":" and a separator
DriveShape(s) == Len(s) = 3 /\ s[2] = 58 /\ IsSep(s[3])
ExtendedShape(s) ==
    /\ Len(s) = 7
    /\ StartsUnc(s) /\ s[3] = 63 /\ IsSep(s[4])
    /\ DriveShape(SubSeq(s, 5, 7))
ShareShape(s) == StartsUnc(s) /\ TwoNames(s, 3)
ExtendedShareShape(s) ==
    StartsUnc(s) /\ Len(s) >= 4 /\ s[3] = 63 /\ IsSep(s[4]) /\ TwoNames(s, 5)
UncShape(s) ==
    /\ StartsUnc(s) /\ Len(s) >= 8
    /\ s[3] = 63 /\ IsSep(s[4]) /\ SubSeq(s, 5, 7) = <<85, 78, 67>> /\ IsSep(s[8])
    /\ TwoNames(s, 9)
DeviceShape(s) ==
    StartsUnc(s) /\ Len(s) >= 4 /\ s[3] = 46 /\ IsSep(s[4]) /\ OneName(s, 5)

\* C9 as claimed: a root is the single separator on POSIX and, on Windows, empty, a
\* single separator, a drive form with one drive letter, the extended prefix before
\* such a drive form, a network-share form with two names or a device form with one
RootClosedShapes ==
    (strategy = "_path_root" /\ pc = "returned") =>
        /\ result.v.t = result_type
        /\ LET s == result.v.s
           IN  IF os_name # "nt" THEN s = <<47>>
               ELSE \/ s = <<>>
                    \/ (Len(s) = 1 /\ IsSep(s[1]))
                    \/ DriveShape(s)
                    \/ ExtendedShape(s)
                    \/ ShareShape(s)
                    \/ ExtendedShareShape(s)
                    \/ UncShape(s)
                    \/ DeviceShape(s)

(***************************************************************************)
(* The search of test_example_basic and test_example_types:                *)
(* fspaths(allow_existing=True) is drawn again and again.  The engine      *)
(* draws at random, so a choice that is possible again and again is made   *)
(* at some time: this is the strong fairness of FairLong.                  *)
(***************************************************************************)
InitLong ==
    \E py \in {"py35", "py36"} : InitEnv("posix", py, LongLim("posix"))

CallExample == Call("None", TRUE)

NextLong ==
    \/ CallExample
    \/ CheckPathlike
    \/ DrawResultType
    \/ DrawMain
    \/ Finish

SpecLong == InitLong /\ [][NextLong]_vars

\* a value longer than LongLen: a root, a segment, and a segment as extension
LongValue(rt) ==
    LET a == [i \in 1..lim.seg |-> 97]
    IN  [t |-> rt, s |-> <<47>> \o a \o <<46>> \o a]

\* the engine makes the draw that assembles c, whenever main_strategy holds c
Draws(c, wrap) ==
    /\ pc = "draw_main"
    /\ wrap => with_pathlike(allow_pathlike)
    /\ c \in built
    /\ DrawMainOf(c, wrap)

FairLong ==
    /\ SpecLong
    /\ WF_vars(CallExample)
    /\ WF_vars(CheckPathlike)
    /\ WF_vars(Finish)
    /\ SF_vars(DrawResultType /\ result_type' = "bytes")
    /\ SF_vars(DrawResultType /\ result_type' = "text")
    /\ SF_vars(Draws(empty(result_type), FALSE))
    /\ SF_vars(Draws(LongValue(result_type), FALSE))
    /\ SF_vars(Draws(empty(result_type), TRUE))

\* C10: the search returns, at some time, an empty value, a value longer than 20
\* units, a bytes value, a text value and, where os.PathLike exists, a wrapper
Coverage ==
    /\ <>(Returned /\ fspath(result).s = <<>>)
    /\ <>(Returned /\ Len(fspath(result).s) > LongLen)
    /\ <>(Returned /\ fspath(result).t = "bytes")
    /\ <>(Returned /\ fspath(result).t = "text")
    /\ has_pathlike => <>(Returned /\ result.kind = "pathlike")

\* C10 witness: a wrapper around a value longer than 20 units is returned
CoverageWitness ==
    /\ Returned
    /\ allow_existing
    /\ allow_pathlike = "None"
    /\ result.kind = "pathlike"
    /\ Len(fspath(result).s) > LongLen

====
